---------------------------- MODULE Spec2Model ----------------------------
(***************************************************************************)
(* Phone Tracker API: the tracking workflow of services/tracking.py        *)
(* (PhoneTracker) and the HTTP handlers of main.py.                        *)
(*                                                                         *)
(* Strings the program takes apart (the raw phone number) are sequences of *)
(* one-character strings; strings it only builds or compares are TLA+      *)
(* strings.  A Python call that may raise is an operator returning a       *)
(* record [raised, exc, value].  The external libraries (phonenumbers,     *)
(* opencage, folium) are modelled by the contract the code relies on, over *)
(* a small numbering plan.                                                 *)
(***************************************************************************)
EXTENDS Integers, Sequences, FiniteSets, TLC

VARIABLES
    started,    \* main.py has run its start-up code
    tracker,    \* the module-level tracker: None or <<PhoneTracker fields>>
    files,      \* the file system under maps/: path -> file content
    geoCalls,   \* number of calls made to geocoder_instance.geocode
    nTracks,    \* number of POST /track requests handled
    resp,       \* the last HTTP response sent
    call,       \* the last tracker.track() invocation: what it ran and did
    produced,   \* map ids for which some track() reached create_map
    returned,   \* <<map_id, location>> of every successful track()
    first,      \* map_id -> the first successful track() of that id
    pc,         \* per worker, position inside a concurrent track()
    job,        \* per worker, the locals of its track() call
    lastWriter  \* the worker whose write of the shared file came last

vars == <<started, tracker, files, geoCalls, nTracks, resp, call, produced,
          returned, first, pc, job, lastWriter>>

-----------------------------------------------------------------------------
(* Bounds *)

\* POST /track requests handled in one behaviour
MaxTracks == 3

-----------------------------------------------------------------------------
(* Python values *)

\* None, as the empty option; a present value v is <<v>>
None == <<>>

NoExc == [type |-> "", msg |-> "", status |-> 0]

ValueError(m) == [type |-> "ValueError", msg |-> m, status |-> 0]

OSError(m) == [type |-> "OSError", msg |-> m, status |-> 0]

Returns(v) == [raised |-> FALSE, exc |-> NoExc, value |-> v]

Raises(e) == [raised |-> TRUE, exc |-> e, value |-> None]

-----------------------------------------------------------------------------
\* F applied to the value of v, evaluated once: a local assignment x = v
\* followed by the code F(x)
Bind(v, F(_)) == CHOOSE r \in {F(x) : x \in {v}} : TRUE

-----------------------------------------------------------------------------

\* str(e): an HTTPException prints as "<status>: <detail>", any other
\* exception as its message
StrOfExc(e) ==
    IF e.type = "HTTPException" THEN ToString(e.status) \o ": " \o e.msg
    ELSE e.msg

-----------------------------------------------------------------------------
(* The numbering plan: phonenumbers.parse, is_valid_number, geocoder and   *)
(* carrier metadata, over digits 1, 2, 5 and country codes 1 and 2.        *)

Whitespace == {" "}

Separators == {" ", "-"}

DigitChars == {"1", "2", "5"}

DigitVal(c) == IF c = "1" THEN 1 ELSE IF c = "2" THEN 2 ELSE 5

CountryCodes == {1, 2}

\* national significant numbers shorter than this do not parse
MinNSN == 2

\* a valid national number of the plan has exactly this many digits
NationalLen == 3

\* str.strip()
RECURSIVE LStrip(_)
LStrip(s) ==
    IF s # <<>> /\ Head(s) \in Whitespace THEN LStrip(Tail(s)) ELSE s

RECURSIVE RStrip(_)
RStrip(s) ==
    IF s # <<>> /\ s[Len(s)] \in Whitespace
    THEN RStrip(SubSeq(s, 1, Len(s) - 1))
    ELSE s

strip(s) == LStrip(RStrip(s))

RECURSIVE DropSeparators(_)
DropSeparators(s) ==
    IF s = <<>> THEN <<>>
    ELSE IF Head(s) \in Separators THEN DropSeparators(Tail(s))
    ELSE <<Head(s)>> \o DropSeparators(Tail(s))

RECURSIVE DigitsToInt(_)
DigitsToInt(s) ==
    IF s = <<>> THEN 0
    ELSE 10 * DigitsToInt(SubSeq(s, 1, Len(s) - 1)) + DigitVal(s[Len(s)])

\* str() of the NumberParseException kinds parse can raise
NOT_A_NUMBER == "(1) The string supplied did not seem to be a phone number."

INVALID_COUNTRY_CODE == "(0) Missing or invalid default region."

TOO_SHORT_NSN == "(4) The string supplied is too short to be a phone number."

NumberParseException(m) == [type |-> "NumberParseException", msg |-> m, status |-> 0]

\* phonenumbers.parse(text, None): no default region, so the number must
\* carry "+" and a known country calling code
parse(text) ==
    Bind(DropSeparators(text), LAMBDA body :
    IF body = <<>> \/ \E i \in 1..Len(body) : body[i] \notin DigitChars \cup {"+"}
    THEN Raises(NumberParseException(NOT_A_NUMBER))
    ELSE IF Head(body) # "+" \/ Len(body) < 2
               \/ \E i \in 2..Len(body) : body[i] \notin DigitChars
               \/ DigitVal(body[2]) \notin CountryCodes
    THEN Raises(NumberParseException(INVALID_COUNTRY_CODE))
    ELSE IF Len(body) - 2 < MinNSN
    THEN Raises(NumberParseException(TOO_SHORT_NSN))
    ELSE Returns([country_code |-> DigitVal(body[2]),
                  national_number |-> DigitsToInt(SubSeq(body, 3, Len(body)))]))

\* number of decimal digits of n > 0
RECURSIVE NumDigits(_)
NumDigits(n) == IF n < 10 THEN 1 ELSE 1 + NumDigits(n \div 10)

is_valid_number(parsed) ==
    /\ parsed.country_code \in CountryCodes
    /\ NumDigits(parsed.national_number) = NationalLen

\* geocoder.description_for_number(parsed, "en"): "" when the region of the
\* number is not known
description_for_number(parsed) ==
    IF parsed.country_code = 1 THEN "Washington D.C."
    ELSE IF parsed.national_number >= 520 THEN "Cairo"
    ELSE ""

\* carrier.name_for_number(parsed, "en"): "" when no carrier is known
name_for_number(parsed) ==
    IF parsed.country_code = 2 THEN "Vodafone" ELSE ""


-----------------------------------------------------------------------------
(* The opencage geocoder: one call gives an ordered list of matches or     *)
(* raises.  Coordinates are whole degrees.                                 *)

Match(lat, lng) == [geometry |-> [lat |-> lat, lng |-> lng]]

\* what one geocode() call may do
GeoOutcomes ==
    { [raised |-> TRUE,  results |-> <<>>],
      [raised |-> FALSE, results |-> <<>>],
      [raised |-> FALSE, results |-> <<Match(38, -77)>>],
      [raised |-> FALSE, results |-> <<Match(30, 31), Match(38, -77)>>] }

\* what the storage layer may do to open(path, "wb")
StorageOutcomes == {"ok", "denied"}

-----------------------------------------------------------------------------
(* The file system: open(path, "wb") truncates, the buffered write lands   *)
(* at offset 0 when the file is closed.                                    *)

Exists(fs, path) == path \in DOMAIN fs

\* mutant: the file is opened without truncation (mode "r+b")
OpenTruncate_NoTruncate(fs, path) ==
    IF Exists(fs, path) THEN fs ELSE (path :> <<>>) @@ fs

OpenTruncate(fs, path) == (path :> <<>>) @@ fs

\* mutant: the file is opened for append, so the write lands at its end
WriteAtStart_Append(fs, path, data) ==
    (path :> (IF Exists(fs, path) THEN fs[path] ELSE <<>>) \o data) @@ fs

WriteAtStart(fs, path, data) ==
    LET old == IF Exists(fs, path) THEN fs[path] ELSE <<>> IN
    (path :> data \o SubSeq(old, Len(data) + 1, Len(old))) @@ fs

-----------------------------------------------------------------------------
(* services/tracking.py: class PhoneTracker *)

ZoomStart == 9

\* PhoneTracker.__init__
PhoneTracker(opencage_api_key) ==
    IF opencage_api_key = ""
    THEN Raises(ValueError("OPENCAGE_API_KEY is required"))
    ELSE Returns([geocoder_instance |-> "OpenCageGeocode:" \o opencage_api_key,
                  maps_dir |-> "maps"])

\* mutant: a parse failure is reported with the message of an invalid number
parse_and_validate_OneMessage(phone_number) ==
    Bind(parse(strip(phone_number)), LAMBDA p :
    IF p.raised \/ ~ is_valid_number(p.value)
    THEN Raises(ValueError("Invalid phone number"))
    ELSE Returns(p.value))

parse_and_validate(phone_number) ==
    Bind(parse(strip(phone_number)), LAMBDA p :
    IF p.raised
    THEN Raises(ValueError("Invalid phone number format: " \o StrOfExc(p.exc)))
    ELSE IF ~ is_valid_number(p.value)
    THEN Raises(ValueError("Invalid phone number"))
    ELSE Returns(p.value))

\* mutant: the empty description is not checked
get_location_NoCheck(parsed_number) ==
    Returns(description_for_number(parsed_number))

get_location(parsed_number) ==
    LET location == description_for_number(parsed_number) IN
    IF location = ""
    THEN Raises(ValueError("Could not determine location for this phone number"))
    ELSE Returns(location)

\* mutant: the carrier name is returned as looked up
get_service_provider_NoFallback(parsed_number) ==
    name_for_number(parsed_number)

get_service_provider(parsed_number) ==
    LET provider == name_for_number(parsed_number) IN
    IF provider # "" THEN provider ELSE "Unknown"

\* mutant: the last match is taken instead of the first
geocode_location_LastMatch(location, geo) ==
    IF geo.raised
    THEN Raises(ValueError("Geocoding failed: " \o "provider error"))
    ELSE IF geo.results = <<>>
    THEN Raises(ValueError("Could not find coordinates for location: " \o location))
    ELSE Returns([lat |-> geo.results[Len(geo.results)].geometry.lat,
                  lng |-> geo.results[Len(geo.results)].geometry.lng])

\* geo is what the one call geocoder_instance.geocode(location) does
geocode_location(location, geo) ==
    IF geo.raised
    THEN Raises(ValueError("Geocoding failed: " \o "provider error"))
    ELSE IF geo.results = <<>>
    THEN Raises(ValueError("Could not find coordinates for location: " \o location))
    ELSE Returns([lat |-> geo.results[1].geometry.lat,
                  lng |-> geo.results[1].geometry.lng])

\* mutant: the file name lacks the "map_" prefix get_map looks for
MapFile_NoPrefix(self, map_id) == self.maps_dir \o "/" \o map_id \o ".html"

\* os.path.join(self.maps_dir, f"map_{map_id}.html")
MapFile(self, map_id) == self.maps_dir \o "/" \o "map_" \o map_id \o ".html"

\* the document folium renders: the map, its one marker, the popup and the
\* tooltip f"Phone: {phone_number}", character by character
Render(lat, lng, location, phone_number) ==
    << "Map", ToString(lat), ToString(lng), ToString(ZoomStart), "OpenStreetMap",
       "Marker", ToString(lat), ToString(lng), "popup", location,
       "icon", "blue", "info-sign", "tooltip", "Phone: " >> \o phone_number

\* map_obj.save(map_file): open, render, write, close
create_map(self, lat, lng, location, phone_number, map_id, storage, fs) ==
    LET map_file == MapFile(self, map_id) IN
    IF storage = "denied"
    THEN [raised |-> TRUE, exc |-> OSError("[Errno 13] Permission denied"),
          value |-> None, files |-> fs]
    ELSE [raised |-> FALSE, exc |-> NoExc, value |-> <<map_file>>,
          files |-> WriteAtStart(OpenTruncate(fs, map_file), map_file,
                                 Render(lat, lng, location, phone_number))]

\* f"{parsed_number.country_code}_{parsed_number.national_number}"
MapId(parsed_number) ==
    ToString(parsed_number.country_code) \o "_"
        \o ToString(parsed_number.national_number)

\* a track() call that ended by raising exc after the given steps
Failed(steps, exc, ngeo, fs) ==
    [raised |-> TRUE, exc |-> exc, value |-> None, steps |-> steps,
     geoCalls |-> ngeo, files |-> fs]

\* PhoneTracker.track: the five steps, the first exception leaves
track(self, phone_number, geo, storage, fs) ==
    Bind(parse_and_validate(phone_number), LAMBDA p :
    IF p.raised THEN Failed(<<"parse_and_validate">>, p.exc, 0, fs) ELSE
    Bind(get_location(p.value), LAMBDA l :
    IF l.raised
    THEN Failed(<<"parse_and_validate", "get_location">>, l.exc, 0, fs) ELSE
    Bind(get_service_provider(p.value), LAMBDA service_provider :
    Bind(geocode_location(l.value, geo), LAMBDA g :
    IF g.raised
    THEN Failed(<<"parse_and_validate", "get_location", "get_service_provider",
                  "geocode_location">>, g.exc, 1, fs) ELSE
    Bind(MapId(p.value), LAMBDA map_id :
    Bind(create_map(self, g.value.lat, g.value.lng, l.value, phone_number,
                    map_id, storage, fs), LAMBDA m :
    IF m.raised
    THEN Failed(<<"parse_and_validate", "get_location", "get_service_provider",
                  "geocode_location", "create_map">>, m.exc, 1, m.files) ELSE
    [raised |-> FALSE, exc |-> NoExc,
     value |-> << [phone_number |-> phone_number,
                   location |-> l.value,
                   service_provider |-> service_provider,
                   latitude |-> g.value.lat,
                   longitude |-> g.value.lng,
                   map_id |-> map_id,
                   map_file |-> m.value[1]] >>,
     steps |-> <<"parse_and_validate", "get_location", "get_service_provider",
                 "geocode_location", "create_map">>,
     geoCalls |-> 1, files |-> m.files]))))))

-----------------------------------------------------------------------------
(* main.py: the HTTP handlers *)

HTTPException(status_code, detail) ==
    [type |-> "HTTPException", msg |-> detail, status |-> status_code]

Response(endpoint, status, detail, body) ==
    [endpoint |-> endpoint, status |-> status, detail |-> detail, body |-> body]

\* mutant: no except clause for ValueError
TrackExcept_NoValueErrorClause(e) ==
    Response("POST /track", 500, "Internal server error: " \o StrOfExc(e), None)

\* the except clauses of track_phone_number
TrackExcept(e) ==
    IF e.type = "ValueError"
    THEN Response("POST /track", 400, StrOfExc(e), None)
    ELSE Response("POST /track", 500, "Internal server error: " \o StrOfExc(e), None)

\* the TrackingResponse built from track()'s result
TrackingResponse(result) ==
    [phone_number |-> result.phone_number,
     location |-> result.location,
     service_provider |-> result.service_provider,
     latitude |-> result.latitude,
     longitude |-> result.longitude,
     map_url |-> "/map/" \o result.map_id]

\* POST /track: the response, and the track() call made if any
track_phone_number(trk, phone_number, geo, storage, fs) ==
    IF trk = None
    THEN [resp |-> TrackExcept(HTTPException(500, "Tracking service unavailable")),
          called |-> FALSE,
          result |-> Failed(<<>>, NoExc, 0, fs)]
    ELSE Bind(track(trk[1], phone_number, geo, storage, fs), LAMBDA result :
         [resp |-> IF result.raised THEN TrackExcept(result.exc)
                   ELSE Response("POST /track", 200, "",
                                 <<TrackingResponse(result.value[1])>>),
          called |-> TRUE,
          result |-> result])

\* mutant: the file is served without the os.path.exists check
get_map_NoExistsCheck(map_id, fs) ==
    Response("GET /map", 200, "",
             <<IF Exists(fs, "maps/map_" \o map_id \o ".html")
               THEN fs["maps/map_" \o map_id \o ".html"] ELSE <<>>>>)

\* GET /map/{map_id}
get_map(map_id, fs) ==
    LET map_file == "maps/map_" \o map_id \o ".html" IN
    IF ~ Exists(fs, map_file)
    THEN Response("GET /map", 404, "Map not found", None)
    ELSE Response("GET /map", 200, "", <<fs[map_file]>>)

\* GET /health
health_check(trk) ==
    Response("GET /health", 200, "",
             << [status |-> "healthy", service |-> "Phone Tracker API",
                 tracking_service |-> IF trk # None THEN "available"
                                      ELSE "unavailable"] >>)

\* GET /
root ==
    Response("GET /", 200, "", << [title |-> "Phone Tracker API", version |-> "1.0.0"] >>)

-----------------------------------------------------------------------------
(* Inputs *)

\* raw phone numbers a client may post
RawInputs ==
    { <<"+", "1", "5", "5", "5">>,
      <<" ", "+", "1", " ", "5", "5", "5", " ">>,
      <<"+", "1", "5", "5">>,
      <<"+", "1", "5">>,
      <<"a", "-", "b">>,
      <<"1", "5", "5", "5">>,
      <<"+", "2", "5", "2", "1">>,
      <<"+", "2", "5", "1", "2">> }

\* API keys the environment may hold at start-up
ApiKeys == {"", "k"}

\* map ids a client may ask for: the ids of the posted numbers that parse,
\* and one that no number has
ProbeIds ==
    {"1_555", "1_55", "2_521", "2_512", "9_999"}

Workers == {1, 2}

-----------------------------------------------------------------------------
(* The server, one request at a time *)

NoCall ==
    [called |-> FALSE, raw |-> <<>>, geo |-> [raised |-> FALSE, results |-> <<>>],
     steps |-> <<>>, geoCalls |-> 0, raised |-> FALSE, exc |-> NoExc,
     value |-> None, filesChanged |-> FALSE]

NoJob ==
    [raw |-> <<>>, raised |-> FALSE, path |-> "", content |-> <<>>,
     raced |-> FALSE]

Init ==
    /\ started = FALSE
    /\ tracker = None
    /\ files = <<>>
    /\ geoCalls = 0
    /\ nTracks = 0
    /\ resp = Response("", 0, "", None)
    /\ call = NoCall
    /\ produced = {}
    /\ returned = {}
    /\ first = <<>>
    /\ pc = [w \in Workers |-> "idle"]
    /\ job = [w \in Workers |-> NoJob]
    /\ lastWriter = 0

\* start-up: construct the tracker from the configured key, leave it None
\* when the constructor raises
Startup(key) ==
    /\ ~ started
    /\ started' = TRUE
    /\ tracker' = LET t == PhoneTracker(key) IN
                  IF t.raised THEN None ELSE <<t.value>>
    /\ UNCHANGED <<files, geoCalls, nTracks, resp, call, produced, returned,
                   first, pc, job, lastWriter>>

\* the map id of a raw number that parses
IdOf(raw) == MapId(parse(strip(raw)).value)

\* a POST /track request, handled to its response
PostTrack(raw, geo, storage) ==
    /\ started
    /\ nTracks < MaxTracks
    /\ \E h \in {track_phone_number(tracker, raw, geo, storage, files)} :
       \E r \in {h.result} :
       /\ resp' = h.resp
       /\ files' = r.files
       /\ geoCalls' = geoCalls + r.geoCalls
       /\ call' = [called |-> h.called, raw |-> raw, geo |-> geo,
                   steps |-> r.steps, geoCalls |-> r.geoCalls,
                   raised |-> r.raised, exc |-> r.exc, value |-> r.value,
                   filesChanged |-> r.files # files]
       /\ produced' = IF Len(r.steps) = 5 THEN produced \cup {IdOf(raw)}
                      ELSE produced
       /\ returned' = IF h.called /\ ~ r.raised
                      THEN returned \cup {<<r.value[1].map_id, r.value[1].location>>}
                      ELSE returned
       /\ first' = IF h.called /\ ~ r.raised /\ r.value[1].map_id \notin DOMAIN first
                   THEN (r.value[1].map_id :>
                            [raw |-> raw, geo |-> geo,
                             map_file |-> r.value[1].map_file,
                             content |-> r.files[r.value[1].map_file]]) @@ first
                   ELSE first
    /\ nTracks' = nTracks + 1
    /\ UNCHANGED <<started, tracker, pc, job, lastWriter>>

\* a GET /map/{map_id} request
GetMap(map_id) ==
    /\ started
    /\ resp' = get_map(map_id, files)
    /\ UNCHANGED <<started, tracker, files, geoCalls, nTracks, call, produced,
                   returned, first, pc, job, lastWriter>>

\* a GET /health request
Health ==
    /\ started
    /\ resp' = health_check(tracker)
    /\ UNCHANGED <<started, tracker, files, geoCalls, nTracks, call, produced,
                   returned, first, pc, job, lastWriter>>

\* a GET / request
Root ==
    /\ started
    /\ resp' = root
    /\ UNCHANGED <<started, tracker, files, geoCalls, nTracks, call, produced,
                   returned, first, pc, job, lastWriter>>

Next ==
    \/ \E key \in ApiKeys : Startup(key)
    \/ \E raw \in RawInputs, geo \in GeoOutcomes, storage \in StorageOutcomes :
           PostTrack(raw, geo, storage)
    \/ \E map_id \in ProbeIds : GetMap(map_id)
    \/ Health
    \/ Root

Spec == Init /\ [][Next]_vars

-----------------------------------------------------------------------------
(* Two workers, each handling one track() call, on the same maps           *)
(* directory: steps 1-4 of a call touch nothing shared; create_map's save  *)
(* is an open that truncates and, later, one write at offset 0.            *)

TheTracker == PhoneTracker("k").value

ConcInit ==
    /\ started = TRUE
    /\ tracker = <<TheTracker>>
    /\ files = <<>>
    /\ geoCalls = 0
    /\ nTracks = 0
    /\ resp = Response("", 0, "", None)
    /\ call = NoCall
    /\ produced = {}
    /\ returned = {}
    /\ first = <<>>
    /\ pc = [w \in Workers |-> "idle"]
    /\ job = [w \in Workers |-> NoJob]
    /\ lastWriter = 0

\* worker w runs track() up to the call of map_obj.save: the path and the
\* document are what track() writes when it runs alone
Begin(w, raw, geo) ==
    /\ pc[w] = "idle"
    /\ \E r \in {track(tracker[1], raw, geo, "ok", <<>>)} :
          /\ job' = [job EXCEPT ![w] =
                        IF r.raised
                        THEN [raw |-> raw, raised |-> TRUE, path |-> "",
                              content |-> <<>>, raced |-> FALSE]
                        ELSE [raw |-> raw, raised |-> FALSE,
                              path |-> r.value[1].map_file,
                              content |-> r.files[r.value[1].map_file],
                              raced |-> FALSE]]
          /\ pc' = [pc EXCEPT ![w] = IF r.raised THEN "done" ELSE "open"]
          /\ geoCalls' = geoCalls + r.geoCalls
    /\ nTracks' = nTracks + 1
    /\ UNCHANGED <<started, tracker, files, resp, call, produced, returned,
                   first, lastWriter>>

\* worker w: open(map_file, "wb"); raced records that the other worker
\* had the same file open, not yet written
Open(w) ==
    /\ pc[w] = "open"
    /\ files' = OpenTruncate(files, job[w].path)
    /\ pc' = [pc EXCEPT ![w] = "write"]
    /\ job' = [job EXCEPT ![w].raced =
                    \E v \in Workers \ {w} :
                        pc[v] = "write" /\ job[v].path = job[w].path]
    /\ produced' = produced \cup {IdOf(job[w].raw)}
    /\ UNCHANGED <<started, tracker, geoCalls, nTracks, resp, call, returned,
                   first, lastWriter>>

\* worker w: the write of the rendered document, and the close
Write(w) ==
    /\ pc[w] = "write"
    /\ files' = WriteAtStart(files, job[w].path, job[w].content)
    /\ pc' = [pc EXCEPT ![w] = "done"]
    /\ lastWriter' = w
    /\ UNCHANGED <<started, tracker, geoCalls, nTracks, resp, call, produced,
                   returned, first, job>>

ConcNext ==
    \/ \E w \in Workers, raw \in RawInputs, geo \in GeoOutcomes : Begin(w, raw, geo)
    \/ \E w \in Workers : Open(w)
    \/ \E w \in Workers : Write(w)

ConcSpec == ConcInit /\ [][ConcNext]_vars

-----------------------------------------------------------------------------
(* The failure kinds, told apart by the message the ValueError carries *)

IsInvalidFormat(e) ==
    /\ e.type = "ValueError"
    /\ e.msg \in {"Invalid phone number format: " \o m :
                    m \in {NOT_A_NUMBER, INVALID_COUNTRY_CODE, TOO_SHORT_NSN}}

IsInvalidNumber(e) == e.type = "ValueError" /\ e.msg = "Invalid phone number"

IsRegionUnknown(e) ==
    /\ e.type = "ValueError"
    /\ e.msg = "Could not determine location for this phone number"

IsGeocodeFailure(e) ==
    e.type = "ValueError" /\ e.msg = "Geocoding failed: provider error"

IsLocationNotFound(e) ==
    /\ e.type = "ValueError"
    /\ e.msg \in {"Could not find coordinates for location: " \o l :
                    l \in {"Washington D.C.", "Cairo"}}

\* the raw input does not parse structurally
ParseFails(raw) == parse(strip(raw)).raised

\* the raw input parses but is not a valid number of the plan
NotValid(raw) == ~ ParseFails(raw) /\ ~ is_valid_number(parse(strip(raw)).value)

\* the popup text of a rendered document
PopupOf(doc) ==
    doc[1 + CHOOSE i \in 1..Len(doc) :
                doc[i] = "popup" /\ \A j \in 1..(i - 1) : doc[j] # "popup"]

\* the steps of track(), in the order the claim gives them
StepOrder ==
    <<"parse_and_validate", "get_location", "get_service_provider",
      "geocode_location", "create_map">>

\* the last request was a POST /track that called tracker.track()
LastWasTrack == resp.endpoint = "POST /track" /\ call.called

-----------------------------------------------------------------------------
(* Claims *)

\* C1: a track() call whose raw input fails the structural parse fails
\* with InvalidFormat, and the geocoder's call count is the same after the
\* call as before it.
C1_UnparseableNeverGeocodes ==
    [][ (nTracks' = nTracks + 1 /\ call'.called /\ ParseFails(call'.raw))
            => /\ call'.raised
               /\ IsInvalidFormat(call'.exc)
               /\ call'.geoCalls = 0
               /\ geoCalls' = geoCalls ]_vars

\* C1 witness: an unparseable number was tracked after the geocoder had
\* already been called for an earlier request.
C1_Witness ==
    /\ LastWasTrack
    /\ ParseFails(call.raw)
    /\ call.raised
    /\ geoCalls > 0

\* C2: with a constructed tracker, a POST /track whose input is rejected in
\* step 1 (InvalidFormat or InvalidNumber) is answered 400.
C2_Step1RejectionIs400 ==
    (LastWasTrack /\ tracker # None /\ (ParseFails(call.raw) \/ NotValid(call.raw)))
        => /\ resp.status = 400
           /\ (ParseFails(call.raw) => IsInvalidFormat(call.exc))
           /\ (NotValid(call.raw) => IsInvalidNumber(call.exc))

\* C2 witness: a number that parses but is not valid was posted and
\* answered 400.
C2_Witness ==
    /\ LastWasTrack
    /\ tracker # None
    /\ NotValid(call.raw)
    /\ resp.status = 400

\* C3: with the tracker absent, POST /track and GET /map answer 500 with
\* the detail "Tracking service unavailable", and GET /health reports the
\* tracking service unavailable.
C3_AbsentTrackerIs500Everywhere ==
    (started /\ tracker = None)
        => /\ resp.endpoint \in {"POST /track", "GET /map"}
                => resp.status = 500 /\ resp.detail = "Tracking service unavailable"
           /\ resp.endpoint = "GET /health"
                => resp.body[1].tracking_service = "unavailable"

Retracked ==
    /\ LastWasTrack
    /\ ~ call.raised
    /\ call.value[1].map_id \in DOMAIN first
    /\ nTracks >= 2

\* what C5 says of every successful track(): its map id is
\* {country_code}_{national_number}, the id and the file path are those of
\* the first call for the same normalized number, and there is one file per
\* id
C5_SameIdSamePath ==
    (LastWasTrack /\ ~ call.raised)
        => /\ call.value[1].map_id =
                ToString(parse(strip(call.raw)).value.country_code) \o "_"
                    \o ToString(parse(strip(call.raw)).value.national_number)
           /\ \A id \in DOMAIN first :
                parse(strip(first[id].raw)).value = parse(strip(call.raw)).value
                    => /\ call.value[1].map_id = id
                       /\ call.value[1].map_file = first[id].map_file
           /\ Cardinality(DOMAIN files) = Cardinality(DOMAIN first)

\* C5 as stated: after a successful track() the file of its id holds the
\* content the first successful track() of that id produced, also when the
\* raw inputs of the two calls differ.
C5_ContentAsFirstCall ==
    /\ C5_SameIdSamePath
    /\ (LastWasTrack /\ ~ call.raised)
            => files[call.value[1].map_file] = first[call.value[1].map_id].content

\* C5 amended: same id, same path, one file per id; the popup text is that
\* of the first call; the whole content is that of the first call when the
\* raw input and the geocoder's first match are those of the first call.
C5_ContentAsFirstCallForSameRaw ==
    /\ C5_SameIdSamePath
    /\ (LastWasTrack /\ ~ call.raised)
            => \E f \in {first[call.value[1].map_id]} :
               \E doc \in {files[call.value[1].map_file]} :
                  /\ PopupOf(doc) = PopupOf(f.content)
                  /\ (call.raw = f.raw /\ call.geo.results[1] = f.geo.results[1])
                        => doc = f.content

\* C5 witness: a number was tracked a third time, with the raw input and
\* the geocoder match of its first call.
C5_Witness ==
    /\ Retracked
    /\ nTracks >= 3
    /\ call.raw = first[call.value[1].map_id].raw
    /\ call.geo.results[1] = first[call.value[1].map_id].geo.results[1]
    /\ files[call.value[1].map_file] = first[call.value[1].map_id].content

\* C6: when track() reaches the geocoding step, a raising geocoder call
\* fails it with GeocodeFailure, an empty result list with LocationNotFound
\* (which is not GeocodeFailure), and a non-empty list lets the step
\* succeed with the first entry's latitude and longitude.
C6_GeocodeOutcomes ==
    (LastWasTrack /\ Len(call.steps) >= 4)
        => /\ call.geo.raised
                => call.raised /\ Len(call.steps) = 4 /\ IsGeocodeFailure(call.exc)
           /\ (~ call.geo.raised /\ call.geo.results = <<>>)
                => /\ call.raised /\ Len(call.steps) = 4
                   /\ IsLocationNotFound(call.exc)
                   /\ ~ IsGeocodeFailure(call.exc)
           /\ (~ call.geo.raised /\ call.geo.results # <<>>)
                => /\ Len(call.steps) = 5
                   /\ ~ call.raised
                        => /\ call.value[1].latitude = call.geo.results[1].geometry.lat
                           /\ call.value[1].longitude = call.geo.results[1].geometry.lng

\* C6 witness: the geocoder returned two different matches and the call
\* succeeded.
C6_Witness ==
    /\ LastWasTrack
    /\ ~ call.raised
    /\ Len(call.geo.results) = 2
    /\ call.geo.results[1] # call.geo.results[2]
    /\ call.value[1].latitude = call.geo.results[1].geometry.lat

\* C7: GET /map/{id} answers 404 for every id for which no track() call
\* has reached the persist step.
C7_UnproducedIs404 ==
    /\ \A id \in ProbeIds \ produced : get_map(id, files).status = 404
    /\ \A path \in DOMAIN files :
          \E id \in produced : path = "maps/map_" \o id \o ".html"

\* C7 witness: a track() call failed in the geocoding step and the GET for
\* the id of its number was answered 404.
C7_Witness ==
    /\ call.called
    /\ call.raised
    /\ Len(call.steps) = 4
    /\ IdOf(call.raw) \notin produced
    /\ produced # {}
    /\ resp = get_map(IdOf(call.raw), files)
    /\ resp.status = 404

\* C8: the carrier step never fails a call; a successful result's
\* service_provider is not empty, and is "Unknown" when the lookup gives no
\* carrier name.
C8_CarrierFallback ==
    LastWasTrack
        => /\ Len(call.steps) >= 3 => Len(call.steps) >= 4
           /\ ~ call.raised
                => /\ call.value[1].service_provider # ""
                   /\ name_for_number(parse(strip(call.raw)).value) = ""
                        => call.value[1].service_provider = "Unknown"
                   /\ name_for_number(parse(strip(call.raw)).value) # ""
                        => call.value[1].service_provider =
                                name_for_number(parse(strip(call.raw)).value)

\* C8 witness: a call succeeded for a number with no known carrier.
C8_Witness ==
    /\ LastWasTrack
    /\ ~ call.raised
    /\ name_for_number(parse(strip(call.raw)).value) = ""
    /\ call.value[1].service_provider = "Unknown"

\* the number of steps track() runs on this input: up to and including the
\* first step that fails
StepsRun(raw, geo) ==
    IF ParseFails(raw) \/ NotValid(raw) THEN 1
    ELSE IF description_for_number(parse(strip(raw)).value) = "" THEN 2
    ELSE IF geo.raised \/ geo.results = <<>> THEN 4
    ELSE 5

\* C9: track() runs its steps in order and stops at the first that fails;
\* it calls the geocoder at most once; a call that fails in steps 1-4
\* returns no result and leaves the files as they were.
C9_FailFast ==
    LastWasTrack
        => /\ call.steps = SubSeq(StepOrder, 1, StepsRun(call.raw, call.geo))
           /\ call.geoCalls = (IF Len(call.steps) >= 4 THEN 1 ELSE 0)
           /\ Len(call.steps) < 5
                => /\ call.raised
                   /\ call.value = None
                   /\ resp.body = None
                   /\ resp.status # 200
                   /\ ~ call.filesChanged

\* C9 witness: with a file already persisted, a call failed in the region
\* step.
C9_Witness ==
    /\ LastWasTrack
    /\ DOMAIN files # {}
    /\ call.raised
    /\ IsRegionUnknown(call.exc)
    /\ call.steps = <<"parse_and_validate", "get_location">>

\* both workers have finished a successful track() of the same map file
BothWrote ==
    /\ \A w \in Workers : pc[w] = "done" /\ ~ job[w].raised
    /\ job[1].path = job[2].path

=============================================================================
